---- MODULE Spec2Model ----
(***************************************************************************)
(* LuaSwift's native bridge (Sources/CLua/extensions.c): the closure       *)
(* trampoline (luaswift_callclosurewrapper, handleClosureResult,           *)
(* continuation) and the two iteration helpers (luaswift_do_for_pairs,     *)
(* luaswift_do_for_ipairs), run against a model of the Lua stack API.      *)
(***************************************************************************)
EXTENDS Integers, Sequences, FiniteSets, TLC

\* ------------------------------------------------------------------ bounds
\* Largest argument / result count a closure or a target uses.
MaxN == 1
\* Largest number of values a closure yields.
MaxYield == 2
\* Largest number of suspending outcomes of one dispatch.
MaxChain == 2
\* Longest table / iterator sequence of an iteration helper.
MaxLen == 3
\* Largest number of loop iterations of an iteration helper.
MaxIter == 4
\* Largest start index of the indexed iteration helper.
MaxStart == 2
\* Number of coroutines that run the trampoline side by side.
MaxCo == 2
\* Largest value of a collector parameter in a luaswift_setgen request.
MaxParam == 1

\* --------------------------------------------------------------- constants
LUASWIFT_CALLCLOSURE_ERROR == -2
LUASWIFT_CALLCLOSURE_PCALLK == -3
LUASWIFT_CALLCLOSURE_CALLK == -4
LUASWIFT_CALLCLOSURE_YIELD == -5
\* Status codes of lua.h, as the bridge uses them.
LUA_OK == 0
LUA_YIELD == 1
LUA_ERRRUN == 2
LUA_MULTRET == -1
\* The collector modes luaswift_setgen reports, and its unsupported marker.
LUASWIFT_GCGEN == 10
LUASWIFT_GCINC == 11
LUASWIFT_GCUNSUPPORTED == -1
\* LUA_VERSION_NUM of Lua 5.4; the versions the bridge builds against.
Lua54 == 504
Versions == {Lua54 - 1, Lua54, Lua54 + 1}

\* ------------------------------------------------------------------ values
\* A Lua value: a type tag and a payload.
Val(t, v) == [t |-> t, v |-> v]
Nil == Val("nil", 0)
IntV(n) == Val("int", n)
\* The userdata a closure pushes as the continuation marker of suspension id.
Marker(id) == Val("userdata", id)
\* The function a Call / ProtectedCall outcome asks the VM to call.
TargetFn == Val("function", 0)
\* The message handler of a ProtectedCall outcome.
MsgHandler == Val("function", 1)
\* The i-th argument pushed for a call, the i-th result of a target, the i-th
\* value a closure yields or returns, the i-th value passed to resume.
Arg(i) == Val("arg", i)
Res(i) == Val("res", i)
Out(i) == Val("out", i)
ResumeArg(i) == Val("resumearg", i)
\* The error value a closure or a target raises with; a message handler maps
\* a target's error value to HandledErr.
ClosureErr == Val("error", 0)
TargetErr == Val("error", 1)
HandledErr == Val("error", 2)

Max(a, b) == IF a >= b THEN a ELSE b

\* lua_tointeger: 0 for a value that is no integer.
ToInteger(v) == IF v.t = "int" THEN v.v ELSE 0

\* ------------------------------------------------------------ Lua stack API
\* lua_gettop
GetTop(s) == Len(s)

\* lua_absindex for a stack index (positive from the base, negative from the top).
AbsIndex(s, idx) == IF idx > 0 THEN idx ELSE Len(s) + 1 + idx

\* lua_settop: truncate, or fill with nil.
SetTop(s, n) ==
    IF n <= Len(s) THEN SubSeq(s, 1, n)
    ELSE s \o [i \in 1..(n - Len(s)) |-> Nil]

\* lua_pop
Pop(s, n) == SubSeq(s, 1, Len(s) - n)

\* lua_rotate: rotate the elements between idx and the top n positions towards
\* the top (n > 0).
Rotate(s, idx, n) ==
    LET a == AbsIndex(s, idx)
        len == Len(s) - a + 1
    IN [i \in 1..Len(s) |->
          IF i < a THEN s[i]
          ELSE s[a + ((i - a - n) % len)]]

\* lua_insert: move the top element into idx, shifting up the elements above.
Insert(s, idx) == Rotate(s, idx, 1)

\* lua_pushvalue
PushValue(s, idx) == Append(s, s[AbsIndex(s, idx)])

\* lua_type of an acceptable index.
TypeAt(s, idx) == s[AbsIndex(s, idx)].t

\* The results of a call adjusted to nret, as lua_call leaves them.
Adjust(r, nret) ==
    IF nret = LUA_MULTRET THEN r
    ELSE [i \in 1..nret |-> IF i <= Len(r) THEN r[i] ELSE Nil]

\* The first m results of a target.
Results(m) == [i \in 1..m |-> Res(i)]
\* ------------------------------------------------------------------- state
VARIABLES
    entry,      \* the native function the VM called: "closure", "pairs", "ipairs"
    registry,   \* the registry keys that hold an invoker
    yieldable,  \* whether the running coroutine may yield
    stack,      \* the Lua stack of the native frame, index 1 at the base
    pc,         \* where control is
    ret,        \* the code the closure returned
    op,         \* the VM operation in progress and the continuation it holds
    result,     \* the result count returned to the VM
    raised,     \* who raised the VM error that ended the frame, and where
    first,      \* history: the kind of the initial invocation's outcome (and
                \* the code of a Return)
    cur,        \* history: the latest outcome and its suspension number
    nsusp,      \* history: suspending outcomes with a continuation so far
    nk,         \* history: invocations of the continuation half so far
    kview,      \* history: the status, the context index and the stack below
                \* them that the continuation invocation whose outcome is
                \* being handled was given
    path,       \* history: VM events since the latest outcome
    iter,       \* the iteration helpers' loop state and history
    gc,         \* the VM's version and collector state, the request
                \* luaswift_setgen was called with and the lua_gc calls made
    co          \* the coroutine that is running (whose stack, pc, ... the
                \* variables above are) and the states of the others

vars == <<entry, registry, yieldable, stack, pc, ret, op, result, raised,
          first, cur, nsusp, nk, kview, path, iter, gc, co>>

\* The registry keys of the three invokers.
KeyCallClosure == "luaswift_callclosurewrapper"
KeyContinuation == "luaswift_continuation_regkey"
KeyForPairs == "luaswift_do_for_pairs"
RegistryKeys == {KeyCallClosure, KeyContinuation, KeyForPairs}

NoOp == [kind |-> "none", nargs |-> 0, nret |-> 0, ctx |-> 0, msgh |-> 0,
         k |-> FALSE, nyield |-> 0, status |-> LUA_OK, resumed |-> FALSE]
NoOutcome == [kind |-> "none", n |-> 0, nret |-> 0, flag |-> FALSE]
NoRaise == [by |-> "none", site |-> "none"]
NoView == [status |-> LUA_OK, ctx |-> 0, stack |-> <<>>, id |-> 0,
           o |-> NoOutcome, path |-> <<>>]

\* --------------------------------------------------------- result protocol
\* The outcomes a closure invocation can produce. n is the result code of a
\* Return, the argument count of a Call or ProtectedCall, the result count of
\* a Yield; flag is has_handler of a ProtectedCall and has_continuation of a
\* Yield.
PlainCodes == (0..MaxN) \cup {LUA_MULTRET, LUASWIFT_CALLCLOSURE_YIELD - 1}

Outcomes ==
    [kind : {"Return"}, n : PlainCodes, nret : {0}, flag : {FALSE}]
    \cup [kind : {"Error"}, n : {0}, nret : {0}, flag : {FALSE}]
    \cup [kind : {"Call"}, n : 0..MaxN, nret : (0..MaxN) \cup {LUA_MULTRET},
          flag : {FALSE}]
    \cup [kind : {"PCall"}, n : 0..MaxN, nret : (0..MaxN) \cup {LUA_MULTRET},
          flag : BOOLEAN]
    \cup [kind : {"Yield"}, n : 0..MaxYield, nret : {0}, flag : BOOLEAN]

\* An outcome after which the continuation half is owed an invocation.
Suspending(o) ==
    o.kind \in {"Call", "PCall"} \/ (o.kind = "Yield" /\ o.flag)

\* The code by which the closure's invoker reports an outcome.
RetCode(o) ==
    CASE o.kind = "Return" -> o.n
      [] o.kind = "Error" -> LUASWIFT_CALLCLOSURE_ERROR
      [] o.kind = "Call" -> LUASWIFT_CALLCLOSURE_CALLK
      [] o.kind = "PCall" -> LUASWIFT_CALLCLOSURE_PCALLK
      [] o.kind = "Yield" -> LUASWIFT_CALLCLOSURE_YIELD

Args(n) == [i \in 1..n |-> Arg(i)]
Outs(n) == [i \in 1..n |-> Out(i)]

\* The stack an invocation of the closure leaves for outcome o, on top of s;
\* id numbers the suspension whose continuation marker it pushes.
ClosureLeaves(s, o, id) ==
    CASE o.kind = "Return" -> s \o Outs(Max(o.n, 0))
      [] o.kind = "Error" -> Append(s, ClosureErr)
      [] o.kind = "Call" ->
            s \o <<Nil, Marker(id), TargetFn>> \o Args(o.n)
              \o <<IntV(o.n), IntV(o.nret)>>
      [] o.kind = "PCall" ->
            s \o <<IF o.flag THEN MsgHandler ELSE Nil, Marker(id), TargetFn>>
              \o Args(o.n) \o <<IntV(o.n), IntV(o.nret)>>
      [] o.kind = "Yield" ->
            s \o Outs(o.n)
              \o <<IF o.flag THEN Marker(id) ELSE Nil, IntV(o.n)>>

\* The continuation half takes the context index and the status off the
\* stack, and may drop everything below them before it goes on.
ContinuationHalfEnters(s, clear) == IF clear THEN <<>> ELSE Pop(s, 2)

\* The argument the VM calls luaswift_callclosurewrapper with.
InitialStacks == {Args(1)}
\* -------------------------------------------------------------- trampoline
\* A closure invocation produced outcome o and left stack s: the history of it.
Outcome(o, s) ==
    LET id == IF Suspending(o) THEN nsusp + 1 ELSE nsusp
    IN /\ Suspending(o) => nsusp < MaxChain
       /\ stack' = ClosureLeaves(s, o, id)
       /\ ret' = RetCode(o)
       /\ cur' = [o |-> o, id |-> id]
       /\ nsusp' = id
       /\ path' = <<>>

\* A call through a registry key that holds no invoker: lua_tocfunction gives
\* NULL and the call through it ends the process.
RegistryMiss ==
    /\ pc' = "aborted"
    /\ UNCHANGED <<stack, ret, op, result, raised, first, cur, nsusp, nk,
                   kview, path>>

\* luaswift_callclosurewrapper up to the closure's return: the VM calls the
\* native function, which looks up the invoker and runs the closure.
luaswift_callclosurewrapper ==
    /\ entry = "closure"
    /\ pc = "entry"
    /\ IF KeyCallClosure \notin registry THEN RegistryMiss
       ELSE \E o \in Outcomes :
              /\ Outcome(o, stack)
              /\ pc' = "handle"
              /\ first' = IF o.kind = "Return" THEN o
                          ELSE [NoOutcome EXCEPT !.kind = o.kind]
              /\ UNCHANGED <<op, result, raised, nk, kview>>
    /\ UNCHANGED <<entry, registry, yieldable, iter, gc, co>>

\* Mutant: the context is computed while nargs and nret are still on the
\* stack.
CallContext_beforePop(s, nargs) == (GetTop(s) + 2) - nargs - 1

\* Mutant: the function's own slot is not counted.
CallContext_offByOne(s, nargs) == GetTop(s) - nargs

\* The context of a Call or ProtectedCall: the index of the continuation
\* marker, below the function and its nargs arguments.
CallContext(s, nargs) == GetTop(s) - nargs - 1

\* Mutant: one slot too low.
YieldContext_offByOne(s, nresults) == GetTop(s) - nresults - 1

\* The context of a Yield, computed once the nil placeholder sits below the
\* marker: the index the marker has after the rotation.
YieldContext(s, nresults) == GetTop(s) - nresults

\* Mutant: the slot below the marker is taken as the handler whatever it
\* holds.
MsgHandlerIndex_untested(s, continuationIndex) == continuationIndex - 1

\* The message handler index lua_pcallk is given.
MsgHandlerIndex(s, continuationIndex) ==
    IF continuationIndex - 1 >= 1
       /\ TypeAt(s, continuationIndex - 1) = "function"
    THEN continuationIndex - 1
    ELSE 0

\* Mutant: the rotation goes the other way round.
YieldLayout_rotatesBack(s, nresults) ==
    LET s2 == Insert(Append(s, Nil), -2)
    IN Rotate(s2, YieldContext(s2, nresults) - 1, -2)

\* [results..., cont] rearranged to nilmsgh, cont, [results...].
YieldLayout(s, nresults) ==
    LET s2 == Insert(Append(s, Nil), -2)
    IN Rotate(s2, YieldContext(s2, nresults) - 1, 2)

\* Mutant: a negative code is clamped to no results.
PlainResult_clamped(r) == Max(r, 0)

\* The plain result count handed back to the VM.
PlainResult(r) == r

\* lua_error: a raise by the bridge at site.
BridgeRaise(site) ==
    /\ pc' = "raised"
    /\ raised' = [by |-> "bridge", site |-> site]

\* A raise by the VM itself, inside a primitive the bridge called.
VMRaise(site) ==
    /\ pc' = "raised"
    /\ raised' = [by |-> "vm", site |-> site]

HandlePlain ==
    /\ pc' = "returned"
    /\ result' = PlainResult(ret)
    /\ UNCHANGED <<stack, op, raised>>

\* Mutant: the error code is handed back to the VM as a result count.
HandleError_returns == HandlePlain

HandleError ==
    /\ BridgeRaise("handleClosureResult")
    /\ UNCHANGED <<stack, op, result>>

HandleCallk ==
    LET nargs == ToInteger(stack[AbsIndex(stack, -2)])
        nret == ToInteger(stack[AbsIndex(stack, -1)])
        s == Pop(stack, 2)
        ctx == CallContext(s, nargs)
    IN /\ stack' = s
       /\ op' = [NoOp EXCEPT !.kind = "callk", !.nargs = nargs, !.nret = nret,
                             !.ctx = ctx, !.k = TRUE]
       /\ pc' = "target"
       /\ UNCHANGED <<result, raised>>

HandlePcallk ==
    LET nargs == ToInteger(stack[AbsIndex(stack, -2)])
        nret == ToInteger(stack[AbsIndex(stack, -1)])
        s == Pop(stack, 2)
        continuationIndex == CallContext(s, nargs)
        msgh == MsgHandlerIndex(s, continuationIndex)
    IN /\ stack' = s
       /\ op' = [NoOp EXCEPT !.kind = "pcallk", !.nargs = nargs, !.nret = nret,
                             !.ctx = continuationIndex, !.msgh = msgh,
                             !.k = TRUE]
       /\ pc' = "target"
       /\ UNCHANGED <<result, raised>>

\* lua_yieldk / lua_yield: the coroutine suspends holding the continuation, or
\* the VM raises when the coroutine cannot yield.
VMYield(s, nresults, k, ctx) ==
    /\ stack' = s
    /\ UNCHANGED result
    /\ IF yieldable
       THEN /\ op' = [NoOp EXCEPT !.kind = IF k THEN "yieldk" ELSE "yield",
                                  !.ctx = ctx, !.k = k, !.nyield = nresults]
            /\ pc' = "suspended"
            /\ UNCHANGED raised
       ELSE /\ VMRaise("lua_yieldk")
            /\ UNCHANGED op

\* Mutant: the placeholder in the continuation's position is left on the
\* stack of a yield without continuation.
HandleYield_keepsPlaceholder ==
    LET nresults == ToInteger(stack[AbsIndex(stack, -1)])
        s == Pop(stack, 1)
    IN IF TypeAt(s, -1) = "userdata"
       THEN LET s3 == YieldLayout(s, nresults)
            IN VMYield(s3, nresults, TRUE, YieldContext(s3, nresults))
       ELSE VMYield(s, nresults, FALSE, 0)

HandleYield ==
    LET nresults == ToInteger(stack[AbsIndex(stack, -1)])
        s == Pop(stack, 1)
    IN IF TypeAt(s, -1) = "userdata"
       THEN LET s3 == YieldLayout(s, nresults)
            IN VMYield(s3, nresults, TRUE, YieldContext(s3, nresults))
       ELSE VMYield(Pop(s, 1), nresults, FALSE, 0)

handleClosureResult ==
    /\ entry = "closure"
    /\ pc = "handle"
    /\ IF ret = LUASWIFT_CALLCLOSURE_ERROR THEN HandleError
       ELSE IF ret = LUASWIFT_CALLCLOSURE_CALLK THEN HandleCallk
       ELSE IF ret = LUASWIFT_CALLCLOSURE_PCALLK THEN HandlePcallk
       ELSE IF ret = LUASWIFT_CALLCLOSURE_YIELD THEN HandleYield
       ELSE HandlePlain
    /\ kview' = NoView
    /\ UNCHANGED <<ret, first, cur, nsusp, nk, path>>
    /\ UNCHANGED <<entry, registry, yieldable, iter, gc, co>>

\* What the invoker of the continuation half is given: stack s, whose two top
\* entries it takes as the context index and the status, for the suspension
\* the latest outcome asked for.
Given(s) ==
    [status |-> ToInteger(s[Len(s)]), ctx |-> ToInteger(s[Len(s) - 1]),
     stack |-> Pop(s, 2), id |-> cur.id, o |-> cur.o, path |-> path]

\* Mutant: the code of the continuation half is returned to the VM as it is,
\* not handled.
continuation_returnsCode(status, ctx) ==
    IF KeyContinuation \notin registry THEN RegistryMiss
    ELSE LET s == stack \o <<IntV(ctx), IntV(status)>>
         IN /\ nk' = nk + 1
            /\ kview' = Given(s)
            /\ \E o \in Outcomes, clear \in BOOLEAN :
                  /\ Outcome(o, ContinuationHalfEnters(s, clear))
                  /\ result' = RetCode(o)
            /\ pc' = "returned"
            /\ UNCHANGED <<op, raised, first>>

\* continuation(L, status, ctx): look up the invoker, push the context index and
\* the status, and run the closure's continuation half.
continuation(status, ctx) ==
    IF KeyContinuation \notin registry THEN RegistryMiss
    ELSE LET continuationIndex == ctx
             s == stack \o <<IntV(continuationIndex), IntV(status)>>
         IN /\ nk' = nk + 1
            /\ kview' = Given(s)
            /\ \E o \in Outcomes, clear \in BOOLEAN :
                  Outcome(o, ContinuationHalfEnters(s, clear))
            /\ pc' = "handle"
            /\ UNCHANGED <<op, result, raised, first>>

\* Mutant: the status lua_pcallk returned is dropped.
InlineStatus_alwaysOk(kind, pcallStatus) == LUA_OK

\* The status handleClosureResult passes to the continuation it calls itself
\* once lua_callk or lua_pcallk has returned to it.
InlineStatus(kind, pcallStatus) ==
    IF kind = "callk" THEN LUA_OK ELSE pcallStatus

\* Mutant: a failed protected call is raised instead of handed to the
\* continuation.
InlineContinuation_escalates ==
    /\ entry = "closure"
    /\ pc = "called"
    /\ IF op.status = LUA_OK
       THEN continuation(LUA_OK, op.ctx)
       ELSE /\ BridgeRaise("handleClosureResult")
            /\ UNCHANGED <<stack, ret, op, result, first, cur, nsusp, nk,
                           kview, path>>
    /\ UNCHANGED <<entry, registry, yieldable, iter, gc, co>>

\* handleClosureResult after lua_callk / lua_pcallk returned without
\* suspending: return continuation(L, status, ctx).
InlineContinuation ==
    /\ entry = "closure"
    /\ pc = "called"
    /\ continuation(InlineStatus(op.kind, op.status), op.ctx)
    /\ UNCHANGED <<entry, registry, yieldable, iter, gc, co>>
\* ------------------------------------------------------- the VM's own steps
\* The stack once the called function and its arguments are replaced by r.
AfterCall(r) == SubSeq(stack, 1, Len(stack) - op.nargs - 1) \o r

\* Mutant: a target that ends after a resume returns into
\* handleClosureResult like one that never suspended.
TargetDone_inline(r, st, ev) ==
    /\ stack' = AfterCall(r)
    /\ op' = [op EXCEPT !.status = st]
    /\ pc' = "called"
    /\ path' = Append(path, ev)
    /\ UNCHANGED <<ret, result, raised, first, cur, nsusp, nk, kview>>

\* Where control goes when the target has finished with status st: back into
\* handleClosureResult if the target never suspended, else to the VM's call of
\* the continuation the call installed.
TargetDone(r, st, ev) ==
    /\ stack' = AfterCall(r)
    /\ op' = [op EXCEPT !.status = st]
    /\ pc' = IF op.resumed THEN "kready" ELSE "called"
    /\ path' = Append(path, ev)
    /\ UNCHANGED <<ret, result, raised, first, cur, nsusp, nk, kview>>

\* The target of lua_callk / lua_pcallk returns m values.
TargetReturns ==
    /\ pc = "target"
    /\ \E m \in 0..MaxN :
          TargetDone(Adjust(Results(m), op.nret),
                     IF op.resumed THEN LUA_YIELD ELSE LUA_OK, "return")
    /\ UNCHANGED <<entry, registry, yieldable, iter, gc, co>>

\* The target raises: lua_callk lets the error through the native frame,
\* lua_pcallk catches it and leaves the (handled) error value.
TargetRaises ==
    /\ pc = "target"
    /\ IF op.kind = "callk"
       THEN /\ VMRaise("target")
            /\ path' = Append(path, "raise")
            /\ UNCHANGED <<stack, ret, op, result, first, cur, nsusp, nk, kview>>
       ELSE TargetDone(<<IF op.msgh # 0 /\ stack[op.msgh].t = "function"
                           THEN HandledErr ELSE TargetErr>>,
                       LUA_ERRRUN, "raise")
    /\ UNCHANGED <<entry, registry, yieldable, iter, gc, co>>

\* The target yields: the coroutine suspends with the native frame's
\* continuation installed.
TargetYields ==
    /\ pc = "target"
    /\ yieldable
    /\ ~op.resumed
    /\ pc' = "suspended"
    /\ path' = Append(path, "yield")
    /\ UNCHANGED <<stack, ret, op, result, raised, first, cur, nsusp, nk, kview>>
    /\ UNCHANGED <<entry, registry, yieldable, iter, gc, co>>

ResumeArgs(n) == [i \in 1..n |-> ResumeArg(i)]

\* lua_resume of the suspended coroutine with n values: they replace the
\* yielded values. A frame that yielded with a continuation is continued by
\* it; one that yielded without returns the n values; a target that yielded
\* runs on.
Resume ==
    /\ pc = "suspended"
    /\ \E n \in 0..MaxN :
         IF op.kind \in {"yieldk", "yield"}
         THEN /\ stack' = Pop(stack, op.nyield) \o ResumeArgs(n)
              /\ IF op.k
                 THEN /\ pc' = "kready"
                      /\ op' = [op EXCEPT !.status = LUA_YIELD, !.resumed = TRUE]
                      /\ UNCHANGED result
                 ELSE /\ pc' = "returned"
                      /\ result' = n
                      /\ UNCHANGED op
         ELSE /\ pc' = "target"
              /\ op' = [op EXCEPT !.resumed = TRUE]
              /\ UNCHANGED <<stack, result>>
    /\ path' = Append(path, "resume")
    /\ UNCHANGED <<ret, raised, first, cur, nsusp, nk, kview>>
    /\ UNCHANGED <<entry, registry, yieldable, iter, gc, co>>

\* The VM calls the continuation a suspended operation installed, with the
\* status of that operation and the context it was installed with.
VMContinuation ==
    /\ pc = "kready"
    /\ op.k
    /\ continuation(op.status, op.ctx)
    /\ UNCHANGED <<entry, registry, yieldable, iter, gc, co>>

\* ------------------------------------------------------- iteration helpers
\* The values the VM calls an iteration helper with.
IterFn == Val("function", 2)
IterState == Val("table", 0)
Block == Val("lightuserdata", 0)
\* The j-th key and value of the iterated sequence: (1,"a"), (2,"b"), ...
Key(j) == IntV(j)
Value(j) == Val("string", j)

\* The codes the per-iteration closure's invoker returns: continue, stop, error,
\* and two codes that are none of them, one positive and one negative (a code
\* of the trampoline's protocol).
IterContinue == 1
IterStop == 0
IterCodes ==
    {IterContinue, IterStop, LUASWIFT_CALLCLOSURE_ERROR, IterContinue + 1,
     LUASWIFT_CALLCLOSURE_PCALLK}

\* The trampoline's variables an iteration helper leaves alone.
notIter == <<ret, op, first, cur, nsusp, nk, kview, path>>

\* The iterator function, called by the VM with (state, k): like next, it gives
\* the pair after key k of a sequence of iter.len pairs, (nil, nil) after the
\* last, and raises on a key that is none of the sequence's.
KeyPos(k) ==
    IF k = Nil THEN 0
    ELSE IF k.t = "int" /\ k.v \in 1..iter.len THEN k.v
    ELSE -1

IterNext(k) ==
    IF KeyPos(k) = iter.len THEN <<Nil, Nil>>
    ELSE <<Key(KeyPos(k) + 1), Value(KeyPos(k) + 1)>>

\* The stack the per-iteration closure's invoker leaves: it takes the block
\* off, may replace the key in position 4, and pushes the error on an error.
IterClosureLeaves(s, code, rekey) ==
    LET s1 == Pop(s, 1)
        s2 == IF rekey = Nil \/ Len(s1) < 4 THEN s1 ELSE [s1 EXCEPT ![4] = rekey]
    IN IF code = LUASWIFT_CALLCLOSURE_ERROR THEN Append(s2, ClosureErr) ELSE s2

\* Mutant: every code that is neither continue nor stop raises.
IterDispatch_raisesOnUnknown(code, site) ==
    IF code = IterContinue
    THEN /\ pc' = "loop"
         /\ UNCHANGED <<result, raised>>
    ELSE IF code = IterStop
    THEN /\ pc' = "returned"
         /\ result' = 0
         /\ UNCHANGED raised
    ELSE /\ BridgeRaise(site)
         /\ UNCHANGED result

\* Mutant: stop is not acted on.
IterDispatch_ignoresStop(code, site) ==
    IF code = LUASWIFT_CALLCLOSURE_ERROR
    THEN /\ BridgeRaise(site)
         /\ UNCHANGED result
    ELSE /\ pc' = "loop"
         /\ UNCHANGED <<result, raised>>

\* Mutant: a code that is none of the three ends the loop like stop.
IterDispatch_stopsOnUnknown(code, site) ==
    IF code = IterContinue
    THEN /\ pc' = "loop"
         /\ UNCHANGED <<result, raised>>
    ELSE IF code = LUASWIFT_CALLCLOSURE_ERROR
    THEN /\ BridgeRaise(site)
         /\ UNCHANGED result
    ELSE /\ pc' = "returned"
         /\ result' = 0
         /\ UNCHANGED raised

\* What a helper does with the code the closure's invoker returned, at site.
IterDispatch(code, site) ==
    IF code = IterContinue
    THEN /\ pc' = "loop"
         /\ UNCHANGED <<result, raised>>
    ELSE IF code = IterStop
    THEN /\ pc' = "returned"
         /\ result' = 0
         /\ UNCHANGED raised
    ELSE IF code = LUASWIFT_CALLCLOSURE_ERROR
    THEN /\ BridgeRaise(site)
         /\ UNCHANGED result
    ELSE /\ pc' = "loop"
         /\ UNCHANGED <<result, raised>>

\* Mutant: the loop is not left.
IterBreak_continues ==
    /\ pc' = "loop"
    /\ UNCHANGED <<result, raised>>

\* The loop ends without a call of the closure: break, return 0.
IterBreak ==
    /\ pc' = "returned"
    /\ result' = 0
    /\ UNCHANGED raised

\* luaswift_do_for_pairs, preamble: look up callUnmanagedClosure.
luaswift_do_for_pairs ==
    /\ entry = "pairs"
    /\ pc = "entry"
    /\ pc' = "loop"
    /\ UNCHANGED <<stack, result, raised, iter>>
    /\ UNCHANGED notIter
    /\ UNCHANGED <<entry, registry, yieldable, gc, co>>

\* Mutant: the state copy is put before the iterator function's copy.
PairsCallLayout_swapped(s) ==
    LET s4 == SetTop(s, 4)
        s5 == Insert(PushValue(s4, 1), 4)
    IN Insert(PushValue(s5, 2), 4)

\* The stack lua_call is given: 4, 5, 6 = iterfn copy, state copy, k.
PairsCallLayout(s) ==
    LET s4 == SetTop(s, 4)
        s5 == Insert(PushValue(s4, 1), 4)
    IN Insert(PushValue(s5, 2), 5)

\* Top of the loop up to lua_call(L, 2, 2): k, v = iterfn(state, k).
PairsCallIterator ==
    /\ entry = "pairs"
    /\ pc = "loop"
    /\ iter.n < MaxIter
    /\ stack' = PairsCallLayout(stack)
    /\ pc' = "iterfn"
    /\ iter' = [iter EXCEPT !.n = @ + 1,
                            !.calls = Append(@, <<stack'[Len(stack') - 2],
                                                   stack'[Len(stack') - 1],
                                                   stack'[Len(stack')]>>)]
    /\ UNCHANGED <<result, raised>>
    /\ UNCHANGED notIter
    /\ UNCHANGED <<entry, registry, yieldable, gc, co>>

\* The iterator returns the next pair, adjusted to two results.
IteratorReturns ==
    /\ pc = "iterfn"
    /\ stack[Len(stack) - 2] = IterFn
    /\ stack[Len(stack) - 1] = IterState
    /\ KeyPos(stack[Len(stack)]) >= 0
    /\ LET kv == IterNext(stack[Len(stack)])
       IN /\ stack' = SubSeq(stack, 1, Len(stack) - 3) \o kv
          /\ iter' = [iter EXCEPT !.produced = Append(@, kv)]
    /\ pc' = "iterated"
    /\ UNCHANGED <<result, raised>>
    /\ UNCHANGED notIter
    /\ UNCHANGED <<entry, registry, yieldable, gc, co>>

\* The call of the iterator raises: lua_call lets the error through.
IteratorRaises ==
    /\ pc = "iterfn"
    /\ VMRaise("iterator")
    /\ UNCHANGED <<stack, result, iter>>
    /\ UNCHANGED notIter
    /\ UNCHANGED <<entry, registry, yieldable, gc, co>>

\* After lua_call: break on a nil key, else call the closure on the pair in
\* positions 4 and 5 and act on the code it returns.
PairsAfterIterator ==
    /\ entry = "pairs"
    /\ pc = "iterated"
    /\ IF stack[4] = Nil
       THEN /\ IterBreak
            /\ UNCHANGED <<stack, iter>>
       ELSE IF KeyForPairs \notin registry
       THEN /\ pc' = "aborted"
            /\ stack' = PushValue(stack, 3)
            /\ UNCHANGED <<result, raised, iter>>
       ELSE \E code \in IterCodes, rekey \in {Nil} \cup {Key(j) : j \in 1..iter.len} :
              LET s == PushValue(stack, 3)
              IN /\ stack' = IterClosureLeaves(s, code, rekey)
                 /\ iter' = [iter EXCEPT !.delivered = Append(@, <<s[4], s[5]>>),
                                         !.codes = Append(@, code)]
                 /\ IterDispatch(code, "luaswift_do_for_pairs")
    /\ UNCHANGED notIter
    /\ UNCHANGED <<entry, registry, yieldable, gc, co>>

\* luaswift_do_for_ipairs, preamble: look up callUnmanagedClosure and start
\* the index at lua_tointeger(L, 2).
luaswift_do_for_ipairs ==
    /\ entry = "ipairs"
    /\ pc = "entry"
    /\ pc' = "loop"
    /\ iter' = [iter EXCEPT !.i = ToInteger(stack[2])]
    /\ UNCHANGED <<stack, result, raised>>
    /\ UNCHANGED notIter
    /\ UNCHANGED <<entry, registry, yieldable, gc, co>>

\* lua_geti on the iterated value: the value at index i, nil where it has none.
GetI(i) ==
    IF i \in 1..iter.len /\ iter.tbl[i] THEN Value(i) ELSE Nil

\* Mutant: the index advances by two.
NextIndex_skips(i) == i + 2

\* The index of the next iteration.
NextIndex(i) == i + 1

\* One iteration: look up index i; break on nil, else call the closure on
\* (i, value) in positions 4 and 5 and act on the code it returns; i++.
IpairsIteration ==
    /\ entry = "ipairs"
    /\ pc = "loop"
    /\ LET s5 == Append(Append(SetTop(stack, 3), IntV(iter.i)), GetI(iter.i))
       IN IF s5[5] = Nil
          THEN /\ IterBreak
               /\ stack' = s5
               /\ iter' = [iter EXCEPT !.lookups = Append(@, iter.i)]
          ELSE IF KeyForPairs \notin registry
          THEN /\ pc' = "aborted"
               /\ stack' = PushValue(s5, 3)
               /\ iter' = [iter EXCEPT !.lookups = Append(@, iter.i)]
               /\ UNCHANGED <<result, raised>>
          ELSE \E code \in IterCodes :
                 LET s == PushValue(s5, 3)
                 IN /\ stack' = IterClosureLeaves(s, code, Nil)
                    /\ iter' = [iter EXCEPT
                                  !.lookups = Append(@, iter.i),
                                  !.delivered = Append(@, <<s[4], s[5]>>),
                                  !.codes = Append(@, code),
                                  !.i = IF code \in {IterStop, LUASWIFT_CALLCLOSURE_ERROR}
                                        THEN @ ELSE NextIndex(@)]
                    /\ IterDispatch(code, "luaswift_do_for_ipairs")
    /\ UNCHANGED notIter
    /\ UNCHANGED <<entry, registry, yieldable, gc, co>>

\* lua_geti raises (an __index metamethod that fails): the error goes through.
LookupRaises ==
    /\ entry = "ipairs"
    /\ pc = "loop"
    /\ VMRaise("lua_geti")
    /\ stack' = Append(SetTop(stack, 3), IntV(iter.i))
    /\ iter' = [iter EXCEPT !.lookups = Append(@, iter.i)]
    /\ UNCHANGED result
    /\ UNCHANGED notIter
    /\ UNCHANGED <<entry, registry, yieldable, gc, co>>

\* ------------------------------------------------------- collector tuning
\* The parameters of the generational collector, by luaswift_setgen's names.
GenParams == {"minormul", "majormul", "minorMajorMul", "majorMinorMul"}

\* The value a collector parameter has before any request: none a request
\* can hold.
DefaultParam == MaxParam + 1

\* The requests luaswift_setgen is called with: 0 leaves a parameter alone.
Requests == [GenParams -> 0..MaxParam]

NoGC == [version |-> Lua54, mode |-> "inc",
         par |-> [p \in GenParams |-> DefaultParam],
         args |-> [p \in GenParams |-> 0], calls |-> <<>>]

\* What lua_gc reports as the previous mode.
ModeCode(mode) == IF mode = "gen" THEN LUASWIFT_GCGEN ELSE LUASWIFT_GCINC

\* lua_gc(L, LUA_GCGEN) of Lua 5.5: switch to generational mode.
GcGen55(g) ==
    [g EXCEPT !.mode = "gen", !.calls = Append(@, <<"LUA_GCGEN">>)]

\* lua_gc(L, LUA_GCPARAM, p, v) of Lua 5.5, called when v is not 0.
GcParam55(g, p, v) ==
    IF v = 0 THEN g
    ELSE [g EXCEPT !.par[p] = v, !.calls = Append(@, <<"LUA_GCPARAM", p, v>>)]

\* lua_gc(L, LUA_GCGEN, minormul, majormul) of Lua 5.4: switch to
\* generational mode, setting the multipliers that are not 0.
GcGen54(g, minormul, majormul) ==
    [g EXCEPT !.mode = "gen",
              !.par = [@ EXCEPT
                         !["minormul"] = IF minormul # 0 THEN minormul ELSE @,
                         !["majormul"] = IF majormul # 0 THEN majormul ELSE @],
              !.calls = Append(@, <<"LUA_GCGEN", minormul, majormul>>)]

\* Mutant: Lua 5.4 is not checked for the two thresholds.
SetgenUnsupported_ignoresThresholds(version, a) ==
    IF version > Lua54 THEN a["majormul"] # 0
    ELSE IF version = Lua54 THEN FALSE
    ELSE TRUE

\* The requests luaswift_setgen refuses, by the #if branch of the version.
SetgenUnsupported(version, a) ==
    IF version > Lua54 THEN a["majormul"] # 0
    ELSE IF version = Lua54
    THEN a["minorMajorMul"] # 0 \/ a["majorMinorMul"] # 0
    ELSE TRUE

\* luaswift_setgen(L, minormul, majormul, minorMajorMul, majorMinorMul).
luaswift_setgen ==
    /\ entry = "setgen"
    /\ pc = "entry"
    /\ pc' = "returned"
    /\ IF SetgenUnsupported(gc.version, gc.args)
       THEN /\ result' = LUASWIFT_GCUNSUPPORTED
            /\ UNCHANGED gc
       ELSE /\ result' = ModeCode(gc.mode)
            /\ gc' = IF gc.version > Lua54
                     THEN GcParam55(
                            GcParam55(
                              GcParam55(GcGen55(gc), "minormul",
                                        gc.args["minormul"]),
                              "minorMajorMul", gc.args["minorMajorMul"]),
                            "majorMinorMul", gc.args["majorMinorMul"])
                     ELSE GcGen54(gc, gc.args["minormul"], gc.args["majormul"])
    /\ UNCHANGED <<stack, raised, iter>>
    /\ UNCHANGED notIter
    /\ UNCHANGED <<entry, registry, yieldable, co>>

\* -------------------------------------------------------------- coroutines
\* Each coroutine is a lua_State of its own: its stack, the native frame on
\* it and the continuation and context the VM keeps for that frame. The
\* history variables go with it.
Coroutines == 1..MaxCo

Thread ==
    [stack |-> stack, pc |-> pc, ret |-> ret, op |-> op, result |-> result,
     raised |-> raised, first |-> first, cur |-> cur, nsusp |-> nsusp,
     nk |-> nk, kview |-> kview, path |-> path]

\* A coroutine created to run the trampoline on c arguments, not yet resumed.
NewThread(c) ==
    [stack |-> Args(c), pc |-> "entry", ret |-> 0, op |-> NoOp, result |-> 0,
     raised |-> NoRaise, first |-> NoOutcome,
     cur |-> [o |-> NoOutcome, id |-> 0], nsusp |-> 0, nk |-> 0,
     kview |-> NoView, path |-> <<>>]

NoCo == [running |-> 1, saved |-> <<>>]

\* Mutant: the continuation and its context are kept for the VM, not for the
\* coroutine.
Switch_sharesContext(c) ==
    /\ entry = "closure"
    /\ c # co.running
    /\ c \in DOMAIN co.saved
    /\ pc \in {"suspended", "returned", "raised"}
    /\ co.saved[c].pc \in {"entry", "suspended"}
    /\ co' = [running |-> c,
              saved |-> [d \in (DOMAIN co.saved \cup {co.running}) \ {c} |->
                           IF d = co.running THEN Thread ELSE co.saved[d]]]
    /\ stack' = co.saved[c].stack
    /\ pc' = co.saved[c].pc
    /\ ret' = co.saved[c].ret
    /\ op' = IF co.saved[c].pc = "suspended" THEN op ELSE co.saved[c].op
    /\ result' = co.saved[c].result
    /\ raised' = co.saved[c].raised
    /\ first' = co.saved[c].first
    /\ cur' = co.saved[c].cur
    /\ nsusp' = co.saved[c].nsusp
    /\ nk' = co.saved[c].nk
    /\ kview' = co.saved[c].kview
    /\ path' = co.saved[c].path
    /\ UNCHANGED <<entry, registry, yieldable, iter, gc>>

\* luaswift_resume(L, ...) is given the lua_State of a coroutine c other than
\* the one that ran last, which has yielded or ended: the VM goes on on c's
\* stack, with what it keeps for c.
Switch(c) ==
    /\ entry = "closure"
    /\ c # co.running
    /\ c \in DOMAIN co.saved
    /\ pc \in {"suspended", "returned", "raised"}
    /\ co.saved[c].pc \in {"entry", "suspended"}
    /\ co' = [running |-> c,
              saved |-> [d \in (DOMAIN co.saved \cup {co.running}) \ {c} |->
                           IF d = co.running THEN Thread ELSE co.saved[d]]]
    /\ stack' = co.saved[c].stack
    /\ pc' = co.saved[c].pc
    /\ ret' = co.saved[c].ret
    /\ op' = co.saved[c].op
    /\ result' = co.saved[c].result
    /\ raised' = co.saved[c].raised
    /\ first' = co.saved[c].first
    /\ cur' = co.saved[c].cur
    /\ nsusp' = co.saved[c].nsusp
    /\ nk' = co.saved[c].nk
    /\ kview' = co.saved[c].kview
    /\ path' = co.saved[c].path
    /\ UNCHANGED <<entry, registry, yieldable, iter, gc>>

\* ------------------------------------------------------------ specification
\* The registries a run starts with: complete, or missing the invoker the
\* called native function needs.
Registries(e) ==
    {RegistryKeys}
    \cup {RegistryKeys \ {k} :
            k \in IF e = "closure" THEN {KeyCallClosure, KeyContinuation}
                  ELSE IF e = "setgen" THEN {}
                  ELSE {KeyForPairs}}

\* The iterated values: tbl[i] says whether index i holds a value.
Tables(n) == [1..n -> BOOLEAN]

NoIter == [len |-> 0, tbl |-> <<>>, start |-> <<>>, i |-> 0, n |-> 0,
           calls |-> <<>>,
           produced |-> <<>>, delivered |-> <<>>, lookups |-> <<>>,
           codes |-> <<>>]

InitClosure ==
    /\ entry = "closure"
    /\ yieldable \in BOOLEAN
    /\ stack \in InitialStacks
    /\ iter = NoIter
    /\ gc = NoGC

InitPairs ==
    /\ entry = "pairs"
    /\ yieldable = FALSE
    /\ gc = NoGC
    /\ \E len \in 0..MaxLen, initval \in {Nil, Key(1)} :
         /\ stack = <<IterFn, IterState, Block, initval>>
         /\ iter = [NoIter EXCEPT !.len = len,
                                  !.tbl = [j \in 1..len |-> TRUE],
                                  !.start = stack]

InitIpairs ==
    /\ entry = "ipairs"
    /\ yieldable = FALSE
    /\ gc = NoGC
    /\ \E len \in 0..MaxLen, start \in 0..MaxStart :
         \E tbl \in Tables(len) :
           /\ stack = <<IterState, IntV(start), Block>>
           /\ iter = [NoIter EXCEPT !.len = len, !.tbl = tbl,
                                    !.start = stack]

\* The VM of some version, its collector in either mode, calls
\* luaswift_setgen with some request.
InitSetgen ==
    /\ entry = "setgen"
    /\ yieldable = FALSE
    /\ stack = <<>>
    /\ iter = NoIter
    /\ \E version \in Versions, mode \in {"inc", "gen"}, a \in Requests :
         gc = [NoGC EXCEPT !.version = version, !.mode = mode, !.args = a]

Init ==
    /\ (InitClosure \/ InitPairs \/ InitIpairs \/ InitSetgen)
    /\ registry \in Registries(entry)
    /\ pc = "entry"
    /\ ret = 0
    /\ op = NoOp
    /\ result = 0
    /\ raised = NoRaise
    /\ first = NoOutcome
    /\ cur = [o |-> NoOutcome, id |-> 0]
    /\ nsusp = 0
    /\ nk = 0
    /\ kview = NoView
    /\ path = <<>>
    /\ co = NoCo

Next ==
    \/ luaswift_callclosurewrapper
    \/ handleClosureResult
    \/ InlineContinuation
    \/ TargetReturns
    \/ TargetRaises
    \/ TargetYields
    \/ Resume
    \/ VMContinuation
    \/ luaswift_do_for_pairs
    \/ PairsCallIterator
    \/ IteratorReturns
    \/ IteratorRaises
    \/ PairsAfterIterator
    \/ luaswift_do_for_ipairs
    \/ IpairsIteration
    \/ LookupRaises
    \/ luaswift_setgen

Spec == Init /\ [][Next]_vars

\* The iteration helpers alone, run to their end: a native function that has
\* been called takes its next step, and the iterator that was called returns
\* or raises.
InitIter == Init /\ entry \in {"pairs", "ipairs"}

NextIter ==
    \/ luaswift_do_for_pairs
    \/ PairsCallIterator
    \/ IteratorReturns
    \/ IteratorRaises
    \/ PairsAfterIterator
    \/ luaswift_do_for_ipairs
    \/ IpairsIteration
    \/ LookupRaises

IterSpec == InitIter /\ [][NextIter]_vars /\ WF_vars(NextIter)

\* Several coroutines of one VM, each running the trampoline on a closure
\* that yields with a continuation (again and again, or returns), resumed in
\* any order. What a closure yields and returns and what a resume passes
\* is narrowed to the cases that make the stacks of the coroutines differ.
YieldsOrReturns ==
    \/ cur'.o.kind = "Return" /\ cur'.o.n = 0
    \/ cur'.o.kind = "Yield" /\ cur'.o.flag /\ cur'.o.n \in {0, MaxYield}

InitCo ==
    /\ entry = "closure"
    /\ registry = RegistryKeys
    /\ yieldable = TRUE
    /\ iter = NoIter
    /\ gc = NoGC
    /\ stack = NewThread(1).stack
    /\ pc = "entry"
    /\ ret = 0
    /\ op = NoOp
    /\ result = 0
    /\ raised = NoRaise
    /\ first = NoOutcome
    /\ cur = [o |-> NoOutcome, id |-> 0]
    /\ nsusp = 0
    /\ nk = 0
    /\ kview = NoView
    /\ path = <<>>
    /\ co = [running |-> 1,
             saved |-> [c \in Coroutines \ {1} |-> NewThread(c)]]

\* A resume that passes no values.
BareResume == Len(stack') = Len(stack) - op.nyield

NextCo ==
    \/ luaswift_callclosurewrapper /\ YieldsOrReturns
    \/ handleClosureResult
    \/ Resume /\ BareResume
    \/ VMContinuation /\ YieldsOrReturns
    \/ \E c \in Coroutines : Switch(c)

CoSpec == InitCo /\ [][NextCo]_vars
\* ------------------------------------------------------------------ claims
\* The continuation marker of suspension id sits at index ctx of stack s.
MarkerAt(s, ctx, id) == ctx \in 1..Len(s) /\ s[ctx] = Marker(id)

\* The VM events of a path say the operation never suspended.
Synchronous(p) == \A i \in 1..Len(p) : p[i] # "yield"

Raising(p) == \E i \in 1..Len(p) : p[i] = "raise"

\* C1: when the closure's initial invocation returns a plain result count n
\* (any code that is none of the four sentinels), the dispatch goes straight
\* from that return to handing n, unchanged, back to the VM, and the
\* continuation half is not invoked in that dispatch.
C1_PlainReturnUnchanged ==
    first.kind = "Return" =>
        /\ nk = 0
        /\ pc \in {"handle", "returned"}
        /\ pc = "returned" => result = first.n

C1_Witness ==
    /\ first.kind = "Return"
    /\ first.n < LUASWIFT_CALLCLOSURE_YIELD
    /\ pc = "returned"
    /\ result = first.n

\* C2: when a Call(nargs, nresults) outcome's target completes synchronously,
\* the continuation half is invoked exactly once for it (the k-th continuation
\* invocation serves the k-th suspension, and the frame cannot pass the call
\* without it), with status LUA_OK, and the stack it is invoked on holds the
\* suspension's marker at the context index with exactly the nresults values
\* of the call above it.
C2_SyncCallContinuesOnceOk ==
    /\ (kview.o.kind = "Call" /\ Synchronous(kview.path)) =>
          /\ kview.path = <<"return">>
          /\ kview.status = LUA_OK
          /\ nk = kview.id
          /\ MarkerAt(kview.stack, kview.ctx, kview.id)
          /\ kview.o.nret >= 0 =>
                /\ Len(kview.stack) = kview.ctx + kview.o.nret
                /\ \A i \in 1..kview.o.nret :
                      kview.stack[kview.ctx + i] \in {Res(i), Nil}
    /\ (cur.o.kind = "Call" /\ path = <<"return">>) =>
          /\ pc \in {"called", "aborted"}
          /\ nk = cur.id - 1

C2_Witness ==
    /\ kview.o.kind = "Call"
    /\ kview.path = <<"return">>
    /\ kview.o.nret = MaxN
    /\ kview.stack[Len(kview.stack)] = Res(MaxN)
    /\ kview.status = LUA_OK
    /\ pc = "handle"

\* C3: when a ProtectedCall outcome's target raises, the continuation half is
\* invoked exactly once for it with status LUA_ERRRUN, the error value is the
\* top of the stack directly above the suspension's marker, and no VM error
\* has been raised out of the dispatch.
C3_PcallErrorDelivered ==
    /\ (kview.o.kind = "PCall" /\ Raising(kview.path)) =>
          /\ kview.status = LUA_ERRRUN
          /\ nk = kview.id
          /\ MarkerAt(kview.stack, kview.ctx, kview.id)
          /\ Len(kview.stack) = kview.ctx + 1
          /\ kview.stack[kview.ctx + 1].t = "error"
          /\ raised = NoRaise
    /\ (cur.o.kind = "PCall" /\ Raising(path)) =>
          /\ pc \in {"called", "kready", "aborted"}
          /\ nk = cur.id - 1
          /\ raised = NoRaise

C3_Witness ==
    /\ kview.o.kind = "PCall"
    /\ kview.path = <<"raise">>
    /\ kview.status = LUA_ERRRUN
    /\ kview.stack[Len(kview.stack)] = TargetErr
    /\ pc = "handle"

\* C4: once a ProtectedCall has come back with status LUA_ERRRUN, the bridge
\* raises no VM error before the continuation half has returned; after it,
\* the bridge raises exactly when the continuation half returned the Error
\* outcome, and a Return(n) from it makes the dispatch return n.
C4_NoAutoEscalation ==
    [][/\ (pc \in {"called", "kready"} /\ op.status = LUA_ERRRUN) =>
             raised' = NoRaise
       /\ (pc = "handle" /\ kview.status = LUA_ERRRUN) =>
             /\ (raised'.by = "bridge") <=> (cur.o.kind = "Error")
             /\ cur.o.kind = "Return" =>
                   (pc' = "returned" /\ result' = cur.o.n)]_vars

C4_Witness ==
    /\ pc = "returned"
    /\ op.kind = "pcallk"
    /\ op.status = LUA_ERRRUN
    /\ cur.o.kind = "Return"
    /\ result = cur.o.n
    /\ nk = 1

\* C5: when a Yield outcome with a continuation is resumed, the continuation
\* half is invoked exactly once for that resume, with status LUA_YIELD, on a
\* stack that holds the suspension's marker at the context index, a nil below
\* it, and exactly the values passed to resume above it.
C5_ResumeContinuesOnceYielded ==
    /\ kview.o.kind = "Yield" =>
          /\ kview.path = <<"resume">>
          /\ kview.status = LUA_YIELD
          /\ nk = kview.id
          /\ MarkerAt(kview.stack, kview.ctx, kview.id)
          /\ kview.stack[kview.ctx - 1] = Nil
          /\ SubSeq(kview.stack, kview.ctx + 1, Len(kview.stack))
                = ResumeArgs(Len(kview.stack) - kview.ctx)
    /\ (cur.o.kind = "Yield" /\ cur.o.flag /\ path = <<"resume">>) =>
          /\ pc \in {"kready", "aborted"}
          /\ nk = cur.id - 1

C5_Witness ==
    /\ kview.o.kind = "Yield"
    /\ kview.o.n = MaxN
    /\ kview.status = LUA_YIELD
    /\ kview.stack[Len(kview.stack)] = ResumeArg(MaxN)
    /\ pc = "handle"

\* C6: in every state the continuation half has been invoked once for each
\* suspending outcome but a pending latest one; so when a terminal Return or
\* Error is delivered to the VM after N suspending outcomes, exactly N
\* continuation invocations have happened. Each invocation is given the index
\* of the marker of the suspension it continues.
C6_ChainedSuspensions ==
    /\ nk = IF Suspending(cur.o) THEN nsusp - 1 ELSE nsusp
    /\ (pc = "returned" \/ raised.by = "bridge") => nk = nsusp
    /\ kview.id # 0 =>
          /\ kview.id = nk
          /\ MarkerAt(kview.stack, kview.ctx, kview.id)

C6_Witness ==
    /\ pc = "returned"
    /\ cur.o.kind = "Return"
    /\ nsusp = MaxChain
    /\ nk = MaxChain

\* C7: an Error outcome, of the initial or of a continuation invocation, is
\* always followed at once by the bridge's raise in handleClosureResult, with
\* the stack as the closure left it; and once a frame has raised, nothing of
\* it runs again.
C7_ErrorRaisesLast ==
    /\ [](cur.o.kind = "Error" =>
            /\ pc \in {"handle", "raised"}
            /\ pc = "raised" =>
                  /\ raised = [by |-> "bridge", site |-> "handleClosureResult"]
                  /\ stack[Len(stack)] = ClosureErr)
    /\ [][/\ (pc = "handle" /\ cur.o.kind = "Error") =>
                (pc' = "raised" /\ stack' = stack /\ nk' = nk /\ op' = op)
          /\ pc = "raised" => UNCHANGED vars]_vars

C7_Witness ==
    /\ pc = "raised"
    /\ raised.by = "bridge"
    /\ cur.o.kind = "Error"
    /\ nk >= 1
\* The error code is the latest code a per-iteration closure returned.
LastCodeIsError ==
    /\ iter.codes # <<>>
    /\ iter.codes[Len(iter.codes)] = LUASWIFT_CALLCLOSURE_ERROR

\* C8 as the specification states it: every raise the bridge initiates is
\* initiated by handleClosureResult's handling of the Error outcome.
C8_OnlyDispatchRaises ==
    raised.by = "bridge" => raised.site = "handleClosureResult"

\* C8, amended: every raise the bridge initiates is initiated where it handles
\* a closure's error code, which is in handleClosureResult for the trampoline
\* and in luaswift_do_for_pairs and luaswift_do_for_ipairs for the
\* per-iteration closure; nowhere does the bridge raise on another code.
C8_RaisesOnlyOnErrorCode ==
    raised.by = "bridge" =>
        \/ /\ raised.site = "handleClosureResult"
           /\ entry = "closure"
           /\ cur.o.kind = "Error"
        \/ /\ raised.site = "luaswift_do_for_pairs"
           /\ entry = "pairs"
           /\ LastCodeIsError
        \/ /\ raised.site = "luaswift_do_for_ipairs"
           /\ entry = "ipairs"
           /\ LastCodeIsError

C8_Witness ==
    /\ raised.by = "bridge"
    /\ raised.site = "luaswift_do_for_pairs"
    /\ pc = "raised"
    /\ Len(iter.delivered) >= 2

\* The pairs of a sequence of iterator results that are no end marker.
NonNilPairs(ps) == SelectSeq(ps, LAMBDA kv : kv[1] # Nil)

Front(q) == SubSeq(q, 1, Len(q) - 1)

\* The run of C9's example: an iterator over (1,"a"),(2,"b") started at nil,
\* and a closure that returns stop on the first pair.
C9_Example ==
    /\ entry = "pairs"
    /\ iter.len = 2
    /\ iter.calls # <<>>
    /\ iter.calls[1] = <<IterFn, IterState, Nil>>
    /\ iter.codes # <<>>
    /\ iter.codes[1] = IterStop

\* C9: the pairs the closure of luaswift_do_for_pairs has been invoked on are
\* the pairs the iterator has produced, each once and in its order (but the
\* one just produced and not yet delivered); the first stop ends the loop with
\* 0 results, no raise and no further call of the iterator; in the example,
\* exactly the pair (1,"a") is delivered and the iterator is called once.
C9_PairsDeliveredUntilStop ==
    (entry = "pairs" /\ pc # "aborted") =>
        /\ iter.delivered =
              IF pc = "iterated" THEN NonNilPairs(Front(iter.produced))
              ELSE NonNilPairs(iter.produced)
        /\ \A j \in 1..Len(iter.codes) :
              iter.codes[j] = IterStop =>
                 /\ j = Len(iter.codes)
                 /\ pc = "returned"
                 /\ result = 0
                 /\ raised = NoRaise
                 /\ Len(iter.calls) = j
                 /\ Len(iter.delivered) = j
        /\ C9_Example =>
              /\ iter.delivered = << <<Key(1), Value(1)>> >>
              /\ Len(iter.calls) = 1
              /\ pc = "returned"
              /\ raised = NoRaise

C9_Witness ==
    /\ C9_Example
    /\ pc = "returned"
    /\ iter.delivered = << <<Key(1), Value(1)>> >>
    /\ iter.produced = << <<Key(1), Value(1)>> >>

\* The start index of luaswift_do_for_ipairs.
StartIndex == ToInteger(stack[2])

\* The run of C10's example: a sequence of length 3 iterated from index 1 by a
\* closure that never stops or fails, at the end of the helper.
C10_Example ==
    /\ entry = "ipairs"
    /\ iter.len = 3
    /\ \A j \in 1..iter.len : iter.tbl[j]
    /\ StartIndex = 1
    /\ \A j \in 1..Len(iter.codes) :
          iter.codes[j] \notin {IterStop, LUASWIFT_CALLCLOSURE_ERROR}
    /\ pc = "returned"

\* C10: luaswift_do_for_ipairs looks up the consecutive indices start,
\* start+1, ..., invokes the closure on each index and the non-nil value found
\* there, and at the first index whose lookup yields nil returns 0 results
\* without a raise and without invoking the closure; in the example the
\* closure is invoked on indices 1, 2, 3 and the 4th lookup ends the loop.
C10_IpairsConsecutiveUntilNil ==
    (entry = "ipairs" /\ pc # "entry") =>
        /\ \A j \in 1..Len(iter.lookups) : iter.lookups[j] = StartIndex + j - 1
        /\ pc = "loop" => iter.i = StartIndex + Len(iter.lookups)
        /\ \A j \in 1..Len(iter.delivered) :
              /\ iter.delivered[j] = <<IntV(iter.lookups[j]), Value(iter.lookups[j])>>
              /\ GetI(iter.lookups[j]) # Nil
        /\ Len(iter.delivered) \in {Len(iter.lookups), Len(iter.lookups) - 1}
        /\ (/\ iter.lookups # <<>>
            /\ GetI(iter.lookups[Len(iter.lookups)]) = Nil
            /\ raised = NoRaise) =>
              /\ pc = "returned"
              /\ result = 0
              /\ Len(iter.delivered) = Len(iter.lookups) - 1
        /\ (/\ iter.lookups # <<>>
            /\ GetI(iter.lookups[Len(iter.lookups)]) # Nil
            /\ pc \in {"loop", "returned"}) =>
              Len(iter.delivered) = Len(iter.lookups)
        /\ C10_Example =>
              /\ iter.lookups = <<1, 2, 3, 4>>
              /\ Len(iter.delivered) = 3
              /\ result = 0
              /\ raised = NoRaise

C10_Witness ==
    /\ C10_Example
    /\ iter.lookups = <<1, 2, 3, 4>>
    /\ iter.delivered = << <<IntV(1), Value(1)>>, <<IntV(2), Value(2)>>,
                           <<IntV(3), Value(3)>> >>

\* The requests C11 names as ones the version cannot express.
C11_CannotExpress ==
    \/ gc.version > Lua54 /\ gc.args["majormul"] # 0
    \/ /\ gc.version = Lua54
       /\ (gc.args["minorMajorMul"] # 0 \/ gc.args["majorMinorMul"] # 0)
    \/ gc.version < Lua54

\* C11: luaswift_setgen called with a request its VM version cannot express
\* (a major multiplier after 5.4, a minor-to-major or major-to-minor
\* threshold on 5.4, any request before 5.4) returns the unsupported marker,
\* makes no lua_gc call and leaves the collector's mode and every parameter
\* as they were.
C11_UnsupportedLeavesGC ==
    [][(entry = "setgen" /\ pc = "entry" /\ C11_CannotExpress) =>
          /\ pc' = "returned"
          /\ result' = LUASWIFT_GCUNSUPPORTED
          /\ gc'.calls = <<>>
          /\ gc'.mode = gc.mode
          /\ gc'.par = gc.par]_vars

C11_Witness ==
    /\ entry = "setgen"
    /\ pc = "returned"
    /\ gc.version = Lua54
    /\ gc.args["minormul"] # 0
    /\ gc.args["majorMinorMul"] # 0
    /\ result = LUASWIFT_GCUNSUPPORTED
    /\ gc.calls = <<>>
    /\ gc.par["minormul"] = DefaultParam

\* The trampoline's part of C12: with no invoker under the wrapper's key the
\* entry aborts before anything is done to the stack; with none under the
\* continuation's key the first dispatch of the continuation aborts, so no
\* continuation half runs and the frame neither returns nor raises after the
\* suspension it was owed to.
C12_TrampolineMissAborts ==
    /\ (entry = "closure" /\ KeyCallClosure \notin registry) =>
          /\ pc \in {"entry", "aborted"}
          /\ stack \in InitialStacks
          /\ op = NoOp
          /\ raised = NoRaise
    /\ (entry = "closure" /\ KeyContinuation \notin registry) =>
          /\ nk = 0
          /\ nsusp = 1 => (pc # "returned" /\ raised.by # "bridge")
          /\ pc = "aborted" => (nsusp = 1 /\ raised = NoRaise)

\* C12: when the registry holds no invoker for the slot being dispatched
\* (trampoline entry, continuation entry, iteration-step entry), the dispatch
\* aborts without a VM call, yield or raise and without returning a result
\* count: control never goes on past the miss.
C12_RegistryMissAborts ==
    /\ C12_TrampolineMissAborts
    /\ (entry \in {"pairs", "ipairs"} /\ KeyForPairs \notin registry) =>
          /\ pc \in {"entry", "loop", "aborted"}
          /\ iter.calls = <<>>
          /\ raised = NoRaise

\* The latest outcome is a Yield without continuation.
PlainYield == cur.o.kind = "Yield" /\ ~cur.o.flag

\* C13: a Yield outcome without continuation makes the trampoline yield,
\* with no continuation installed, exactly the nresults values the closure
\* declared, the placeholder in the continuation's position (and the count)
\* being taken off the stack and not yielded; the resume that follows ends the
\* native frame without an invocation of the continuation half, and nothing
\* of the frame runs after it.
C13_PlainYieldNotResumable ==
    /\ [](PlainYield =>
            /\ pc \in {"handle", "suspended", "returned", "raised"}
            /\ pc = "raised" => (raised.by = "vm" /\ ~yieldable)
            /\ pc \in {"suspended", "returned"} =>
                  (op.kind = "yield" /\ ~op.k /\ op.nyield = cur.o.n))
    /\ [][/\ (pc = "handle" /\ PlainYield /\ yieldable) =>
                /\ pc' = "suspended"
                /\ stack' = Pop(stack, 2)
                /\ SubSeq(stack', Len(stack') - cur.o.n + 1, Len(stack'))
                      = Outs(cur.o.n)
                /\ nk' = nk
          /\ (pc = "suspended" /\ PlainYield) =>
                (pc' = "returned" /\ nk' = nk /\ kview' = kview)
          /\ (pc = "returned" /\ PlainYield) => UNCHANGED vars]_vars

C13_Witness ==
    /\ PlainYield
    /\ cur.o.n = MaxN
    /\ pc = "returned"
    /\ path = <<"resume">>
    /\ op.kind = "yield"
    /\ nsusp >= 1
    /\ nk = nsusp

\* A VM primitive holds a continuation of the native frame.
Pending ==
    /\ op.kind \in {"callk", "pcallk", "yieldk"}
    /\ pc \in {"target", "called", "suspended", "kready"}

\* C14: for every suspending outcome the context handed to lua_callk,
\* lua_pcallk or lua_yieldk is an index into the stack as it is once the
\* control values are popped, the index of the continuation marker the
\* closure supplied; it addresses that marker for as long as the primitive
\* holds it, and the continuation half is invoked with that same index on a
\* stack that holds the marker there.
C14_ContextIndexesMarker ==
    /\ [](/\ Pending =>
               /\ MarkerAt(stack, op.ctx, cur.id)
          /\ (pc = "handle" /\ kview.id # 0) =>
               /\ MarkerAt(kview.stack, kview.ctx, kview.id)
               /\ kview.ctx = op.ctx)
    /\ [][(pc = "handle" /\ Suspending(cur.o) /\ pc' # "raised") =>
             /\ MarkerAt(stack', op'.ctx, cur.id)
             /\ cur.o.kind \in {"Call", "PCall"} =>
                   /\ stack' = Pop(stack, 2)
                   /\ op'.ctx = Len(stack') - cur.o.n - 1
             /\ cur.o.kind = "Yield" =>
                   /\ Len(stack') = Len(Pop(stack, 1)) + 1
                   /\ op'.ctx = Len(stack') - cur.o.n]_vars

C14_Witness ==
    /\ pc = "handle"
    /\ kview.id = MaxChain
    /\ kview.o.kind = "PCall"
    /\ kview.o.n = MaxN
    /\ kview.ctx = op.ctx
    /\ MarkerAt(kview.stack, kview.ctx, kview.id)

\* The number of stack entries below the results of the Yield outcome being
\* handled: above them are the results, the marker and the count.
YieldBase == Len(stack) - cur.o.n - 2

\* C15: handling a Yield outcome with continuation turns the stack
\* [below..., results(1..n), marker] (the count popped) into
\* [below..., nil, marker, results(1..n)]: the results are the top n entries
\* in their order, the marker is at the context index, a nil is directly
\* below it, and the entries below the results are as they were.
C15_YieldRearranges ==
    [][(pc = "handle" /\ cur.o.kind = "Yield" /\ cur.o.flag) =>
          /\ Len(stack') = YieldBase + 2 + cur.o.n
          /\ SubSeq(stack', 1, YieldBase) = SubSeq(stack, 1, YieldBase)
          /\ stack'[YieldBase + 1] = Nil
          /\ stack'[YieldBase + 2] = Marker(cur.id)
          /\ \A i \in 1..cur.o.n :
                /\ stack'[YieldBase + 2 + i] = stack[YieldBase + i]
                /\ stack'[YieldBase + 2 + i] = Out(i)
          /\ pc' = "suspended" => op'.ctx = YieldBase + 2]_vars

C15_Witness ==
    /\ pc = "suspended"
    /\ op.kind = "yieldk"
    /\ cur.o.n = MaxYield
    /\ cur.id = MaxChain
    /\ SubSeq(stack, op.ctx - 1, Len(stack))
          = <<Nil, Marker(cur.id)>> \o Outs(MaxYield)
    /\ op.ctx > 2

\* lua_pcallk is running the target of the ProtectedCall outcome being
\* handled: the function and its op.nargs arguments are the top of the stack.
InProtectedCall == op.kind = "pcallk" /\ pc = "target"

\* C16 as the specification states it: lua_pcallk is given a message handler
\* exactly when the closure supplied one, and the handler is the slot directly
\* below the arguments of the call; without one the index is 0.
C16_HandlerBelowArguments ==
    InProtectedCall =>
        /\ cur.o.flag <=> op.msgh # 0
        /\ op.msgh # 0 => op.msgh = Len(stack) - op.nargs

\* C16, amended: lua_pcallk is given a message handler exactly when the
\* closure supplied one; the handler is the slot directly below the
\* continuation marker, which is two slots below the function being called
\* (the function itself is what sits directly below the arguments); without
\* one the index is 0. An error of the target reaches the continuation half
\* handled exactly when a handler was supplied.
C16_HandlerBelowMarker ==
    /\ InProtectedCall =>
          /\ cur.o.flag <=> op.msgh # 0
          /\ stack[Len(stack) - op.nargs] = TargetFn
          /\ op.ctx = Len(stack) - op.nargs - 1
          /\ op.msgh # 0 =>
                /\ op.msgh = op.ctx - 1
                /\ op.msgh = Len(stack) - op.nargs - 2
                /\ stack[op.msgh] = MsgHandler
          /\ op.msgh = 0 => stack[op.ctx - 1] = Nil
    /\ (pc = "handle" /\ kview.o.kind = "PCall" /\ Raising(kview.path)) =>
          kview.stack[Len(kview.stack)]
             = IF kview.o.flag THEN HandledErr ELSE TargetErr

C16_Witness ==
    /\ pc = "handle"
    /\ kview.o.kind = "PCall"
    /\ kview.o.flag
    /\ kview.o.n = MaxN
    /\ op.msgh = op.ctx - 1
    /\ kview.stack[op.msgh] = MsgHandler
    /\ kview.stack[Len(kview.stack)] = HandledErr

\* An outcome that asks the VM for a call.
IsCall(o) == o.kind \in {"Call", "PCall"}

\* C17: when the target of a Call or ProtectedCall outcome yields, the native
\* frame is suspended with it and no continuation half is invoked then; the
\* continuation half is invoked once the coroutine has been resumed and the
\* target has ended, by the VM and never inline by handleClosureResult, once
\* for that outcome, with status LUA_YIELD when the target returned (a target
\* of a protected call that raised after the resume gives LUA_ERRRUN).
C17_YieldingTargetContinuesOnResume ==
    /\ (IsCall(cur.o) /\ ~Synchronous(path)) =>
          /\ nk = cur.id - 1
          /\ pc \in {"suspended", "target", "kready", "raised", "aborted"}
          /\ pc = "suspended" => path = <<"yield">>
          /\ pc = "target" => (path = <<"yield", "resume">> /\ op.resumed)
          /\ pc = "kready" => (Len(path) = 3 /\ op.resumed)
          /\ pc = "raised" => (raised.by = "vm" /\ cur.o.kind = "Call")
    /\ (IsCall(kview.o) /\ ~Synchronous(kview.path)) =>
          /\ SubSeq(kview.path, 1, 2) = <<"yield", "resume">>
          /\ Len(kview.path) = 3
          /\ kview.path[3] = "return" => kview.status = LUA_YIELD
          /\ kview.path[3] = "raise" =>
                (kview.status = LUA_ERRRUN /\ kview.o.kind = "PCall")
          /\ nk = kview.id
          /\ MarkerAt(kview.stack, kview.ctx, kview.id)

C17_Witness ==
    /\ pc = "handle"
    /\ kview.o.kind = "Call"
    /\ kview.path = <<"yield", "resume", "return">>
    /\ kview.status = LUA_YIELD
    /\ kview.id = MaxChain
    /\ nk = MaxChain

\* C18: luaswift_do_for_pairs calls the iterator first with the state and the
\* initial key, and every later time with the state and the value that is in
\* stack position 4 when the previous iteration's closure has returned
\* continue; the iterator function, the state and the closure handle in
\* positions 1 to 3 are the same throughout.
C18_KeyThreading ==
    /\ [](entry = "pairs" =>
            /\ SubSeq(stack, 1, 3) = SubSeq(iter.start, 1, 3)
            /\ \A j \in 1..Len(iter.calls) :
                  /\ iter.calls[j][1] = iter.start[1]
                  /\ iter.calls[j][2] = iter.start[2]
            /\ iter.calls # <<>> => iter.calls[1][3] = iter.start[4])
    /\ [][entry = "pairs" =>
            /\ (pc = "loop" /\ pc' = "iterfn") =>
                  /\ iter'.calls
                        = Append(iter.calls, <<stack[1], stack[2], stack[4]>>)
                  /\ SubSeq(stack', Len(stack') - 2, Len(stack'))
                        = <<stack[1], stack[2], stack[4]>>
            /\ (pc = "iterated" /\ pc' = "loop") =>
                  /\ iter'.codes[Len(iter'.codes)]
                        \notin {IterStop, LUASWIFT_CALLCLOSURE_ERROR}
                  /\ Len(stack') = 5
            /\ pc' # "iterfn" => iter'.calls = iter.calls]_vars

C18_Witness ==
    /\ entry = "pairs"
    /\ Len(iter.calls) = 2
    /\ iter.calls[1] = <<IterFn, IterState, Nil>>
    /\ iter.produced[1] = <<Key(1), Value(1)>>
    /\ iter.codes = <<IterContinue>>
    /\ iter.calls[2] = <<IterFn, IterState, Key(2)>>
    /\ pc = "iterfn"

\* The events that end an iteration helper's loop.
NilProduced ==
    /\ entry = "pairs"
    /\ iter.produced # <<>>
    /\ iter.produced[Len(iter.produced)][1] = Nil

NilLookup ==
    /\ entry = "ipairs"
    /\ iter.lookups # <<>>
    /\ GetI(iter.lookups[Len(iter.lookups)]) = Nil
    /\ raised = NoRaise

LastCodeIsStop ==
    /\ iter.codes # <<>>
    /\ iter.codes[Len(iter.codes)] = IterStop

\* C19: the loop of an iteration helper ends once the iterator gives a nil
\* key, the lookup gives nil, or the closure returns stop or error: the helper
\* then returns 0 results (nil, stop) or raises (error), it returns or raises
\* for no other reason of its own, and once it has ended there is no further
\* iterator call, lookup or closure invocation.
C19_IterationEnds ==
    /\ [](/\ NilProduced => pc \in {"iterated", "returned"}
          /\ NilLookup => pc = "returned"
          /\ LastCodeIsStop => pc = "returned"
          /\ LastCodeIsError => (pc = "raised" /\ raised.by = "bridge")
          /\ pc = "returned" =>
                /\ result = 0
                /\ raised = NoRaise
                /\ NilProduced \/ NilLookup \/ LastCodeIsStop
          /\ (pc = "raised" /\ raised.by = "bridge") => LastCodeIsError)
    /\ [][(pc \in {"returned", "raised"}) => UNCHANGED vars]_vars
    /\ ((NilProduced /\ pc = "iterated") ~> (pc = "returned"))

C19_Witness ==
    /\ entry = "pairs"
    /\ iter.len = 2
    /\ Len(iter.calls) = 3
    /\ Len(iter.delivered) = 2
    /\ NilProduced
    /\ pc = "returned"
    /\ result = 0

\* The continuation context the VM keeps for a coroutine suspended in a
\* Yield with continuation addresses the marker of that suspension on the
\* coroutine's own stack; the first one is two above its c arguments.
OwnContext(c, th) ==
    th.pc \in {"suspended", "kready"} =>
        /\ th.op.kind = "yieldk"
        /\ MarkerAt(th.stack, th.op.ctx, th.cur.id)
        /\ th.cur.id = 1 =>
              (th.op.ctx = c + 2 /\ SubSeq(th.stack, 1, c) = Args(c))

\* C20: with several coroutines that each suspend through a Yield with
\* continuation and are resumed in any order, whatever the others do in
\* between, a suspended coroutine's context keeps addressing its own marker
\* on its own stack, and each resume invokes the continuation half once, on
\* the resumed coroutine's stack, with the context that coroutine computed at
\* its suspension and status LUA_YIELD.
C20_ContextPerCoroutine ==
    /\ OwnContext(co.running, Thread)
    /\ \A c \in DOMAIN co.saved : OwnContext(c, co.saved[c])
    /\ (pc = "handle" /\ kview.id # 0) =>
          /\ kview.status = LUA_YIELD
          /\ kview.path = <<"resume">>
          /\ nk = kview.id
          /\ kview.ctx = op.ctx
          /\ MarkerAt(kview.stack, kview.ctx, kview.id)
          /\ kview.id = 1 =>
                /\ kview.ctx = co.running + 2
                /\ SubSeq(kview.stack, 1, co.running) = Args(co.running)

\* Coroutine 1 is continued from its first yield after coroutine 2 has been
\* started, has yielded, has been resumed and has yielded again.
C20_Witness ==
    /\ co.running = 1
    /\ pc = "handle"
    /\ kview.id = 1
    /\ kview.o.n = MaxYield
    /\ kview.ctx = co.running + 2
    /\ co.saved[2].pc = "suspended"
    /\ co.saved[2].nk = 1
    /\ co.saved[2].cur.id = 2

\* A code of the per-iteration closure that is none of continue, stop, error.
UnknownCode(c) ==
    c \notin {IterContinue, IterStop, LUASWIFT_CALLCLOSURE_ERROR}

LastCodeIsUnknown ==
    /\ iter.codes # <<>>
    /\ UnknownCode(iter.codes[Len(iter.codes)])

\* C21: in both iteration helpers a closure result that is none of continue,
\* stop and the error code neither ends the loop nor raises: the helper is
\* back at the top of its loop with nothing returned or raised, and its next
\* round is the one continue leads to, a call of the iterator on the state and
\* whatever is in stack position 4 (generic form), a lookup of the next index
\* (indexed form); if the helper ends after such a code, it is by the next
\* round's nil or by an error of the iterator or the lookup.
C21_UnknownCodeContinues ==
    /\ [](LastCodeIsUnknown =>
            /\ raised.by # "bridge"
            /\ pc \in {"loop", "iterfn", "iterated", "returned", "raised"}
            /\ pc = "returned" => (NilProduced \/ NilLookup)
            /\ pc = "loop" =>
                  /\ SubSeq(stack, 1, 3) = SubSeq(iter.start, 1, 3)
                  /\ entry = "pairs" => Len(iter.calls) = Len(iter.codes)
                  /\ entry = "ipairs" =>
                        iter.i = iter.lookups[Len(iter.lookups)] + 1)
    /\ [][/\ (/\ iter'.codes # iter.codes
              /\ UnknownCode(iter'.codes[Len(iter'.codes)])) =>
                /\ pc' = "loop"
                /\ result' = result
                /\ raised' = NoRaise
          /\ (entry = "pairs" /\ pc = "loop" /\ LastCodeIsUnknown) =>
                /\ pc' = "iterfn"
                /\ iter'.calls
                      = Append(iter.calls, <<stack[1], stack[2], stack[4]>>)
          /\ (entry = "ipairs" /\ pc = "loop" /\ LastCodeIsUnknown) =>
                iter'.lookups = Append(iter.lookups, iter.i)]_vars

C21_Witness ==
    /\ entry = "ipairs"
    /\ Len(iter.codes) = 2
    /\ UnknownCode(iter.codes[1])
    /\ UnknownCode(iter.codes[2])
    /\ iter.codes[1] # iter.codes[2]
    /\ Len(iter.lookups) = 3
    /\ iter.lookups[3] = iter.lookups[1] + 2
    /\ NilLookup
    /\ pc = "returned"
====
